---- MODULE Spec2Model ----
(***************************************************************************)
(* Model of the musli wire codec (tag byte, integer encodings, struct      *)
(* framing) and of the musli-zerocopy reference / struct-store layer.      *)
(***************************************************************************)
EXTENDS Integers, Sequences, FiniteSets, TLC

VARIABLES
    tg,       \* the Tag operation last performed and the Tag it produced
    ci,       \* a continuation-integer call: its arguments and its result
    cfg,      \* the WireEncoding<I, L> configuration in use
    value,    \* the struct handed to to_vec
    vec,      \* the Vec<u8> to_vec produced
    input,    \* the slice handed to from_slice
    res,      \* what from_slice returned, and for which target type
    pc,       \* position of the wire program: config, encoded, decoded
    zc,       \* a zero-copy load: the buffer, the Ref<T> and the outcome
    ss,       \* a StoreStruct writer and the buffer it writes to
    se        \* a SequenceEncoder, the calls made on it and what it wrote

vars == <<tg, ci, cfg, value, vec, input, res, pc, zc, ss, se>>

\* The variables a component leaves alone.
wireVars == <<cfg, value, vec, input, res, pc>>
tagOthers == <<ci, wireVars, zc, ss, se>>
intOthers == <<tg, wireVars, zc, ss, se>>
wireOthers == <<tg, ci, zc, ss, se>>
zcOthers == <<tg, ci, wireVars, ss, se>>
ssOthers == <<tg, ci, wireVars, zc, se>>
seOthers == <<tg, ci, wireVars, zc, ss>>

----------------------------------------------------------------------------
(* Bit operations on naturals (u8 / usize operands).                       *)

RECURSIVE BitAnd(_, _)
BitAnd(a, b) ==
    IF a = 0 \/ b = 0 THEN 0
    ELSE (IF a % 2 = 1 /\ b % 2 = 1 THEN 1 ELSE 0) + 2 * BitAnd(a \div 2, b \div 2)

RECURSIVE BitOr(_, _)
BitOr(a, b) ==
    IF a = 0 THEN b
    ELSE IF b = 0 THEN a
    ELSE (IF a % 2 = 1 \/ b % 2 = 1 THEN 1 ELSE 0) + 2 * BitOr(a \div 2, b \div 2)

\* !x on a u8
BitNot8(a) == 255 - a

U8 == 0..255

----------------------------------------------------------------------------
(* musli-wire/src/types.rs                                                 *)

DATA_MASK == 31

Byte == 0
Prefix == 32
Sequence == 64
PairSequence == 96
Continuation == 128
Unknown1 == 160
Unknown2 == 192
Unknown3 == 224

Kind == {Byte, Prefix, Sequence, PairSequence, Continuation,
         Unknown1, Unknown2, Unknown3}

\* The variant names of the Kind enumeration, by discriminant.
KindName(k) ==
    CASE k = Byte -> "Byte"
      [] k = Prefix -> "Prefix"
      [] k = Sequence -> "Sequence"
      [] k = PairSequence -> "PairSequence"
      [] k = Continuation -> "Continuation"
      [] k = Unknown1 -> "Unknown1"
      [] k = Unknown2 -> "Unknown2"
      [] k = Unknown3 -> "Unknown3"
      [] OTHER -> "invalid"

None == [some |-> FALSE, v |-> 0]
Some(x) == [some |-> TRUE, v |-> x]

Tag_new_noclamp(kind, data) ==
    [repr |-> BitOr(kind, data)]

Tag_new(kind, data) ==
    [repr |-> BitOr(kind, IF data < DATA_MASK THEN data ELSE DATA_MASK)]

Tag_empty(kind) ==
    [repr |-> BitOr(kind, DATA_MASK)]

\* Reinterprets the whole byte, data bits included, as a Kind.
Tag_kind_unmasked(t) ==
    t.repr

Tag_kind_shifted(t) ==
    BitAnd(t.repr, BitNot8(DATA_MASK)) \div 32

Tag_kind(t) ==
    BitAnd(t.repr, BitNot8(DATA_MASK))

Tag_data_raw(t) ==
    BitAnd(t.repr, DATA_MASK)

Tag_from_byte(repr) ==
    [repr |-> repr]

Tag_byte_masked(t) ==
    BitAnd(t.repr, DATA_MASK)

Tag_byte(t) ==
    t.repr

Tag_with_len_inclusive(kind, len) ==
    IF len <= DATA_MASK
    THEN <<Tag_new(kind, len % 256), TRUE>>
    ELSE <<Tag_new(kind, DATA_MASK), FALSE>>

Tag_with_len(kind, len) ==
    IF len < DATA_MASK
    THEN <<Tag_new(kind, len % 256), TRUE>>
    ELSE <<Tag_new(kind, DATA_MASK), FALSE>>

Tag_with_byte(kind, len) ==
    IF len < DATA_MASK
    THEN <<Tag_new(kind, len), TRUE>>
    ELSE <<Tag_new(kind, DATA_MASK), FALSE>>

Tag_data_unreserved(t) ==
    Some(Tag_data_raw(t))

Tag_data(t) ==
    IF Tag_data_raw(t) = DATA_MASK
    THEN None
    ELSE Some(Tag_data_raw(t))

----------------------------------------------------------------------------
(* Byte reader over a slice. Positions are 1-based: pos is the index of    *)
(* the next unread byte. A result is [err, v, pos]; err = "ok" on success. *)

Ok(v, pos) == [err |-> "ok", v |-> v, pos |-> pos]
Err(e, pos) == [err |-> e, v |-> 0, pos |-> pos]

\* The `?` operator: an error is returned at once, a success is handed on.
Try(r, K(_)) == IF r.err # "ok" THEN r ELSE K(r)

NoRes == Err("none", 1)

BufferExhausted == "BufferExhausted"
IntegerOverflow == "IntegerOverflow"

read_byte(bs, pos) ==
    IF pos > Len(bs)
    THEN Err(BufferExhausted, pos)
    ELSE Ok(bs[pos], pos + 1)

\* Reads n bytes at once, or none when fewer than n remain.
read_bytes(bs, pos, n) ==
    IF pos + n - 1 > Len(bs)
    THEN Err(BufferExhausted, pos)
    ELSE Ok(SubSeq(bs, pos, pos + n - 1), pos + n)

----------------------------------------------------------------------------
(* Continuation encoding: groups of 7 bits, low to high, the top bit of    *)
(* every byte but the last one set.                                        *)

MASK_BYTE == 127
CONT_BYTE == 128

RECURSIVE Pow2(_)
Pow2(n) == IF n = 0 THEN 1 ELSE 2 * Pow2(n - 1)

RECURSIVE continuation_encode(_)
continuation_encode(val) ==
    IF val < CONT_BYTE
    THEN <<val>>
    ELSE <<BitOr(val % 128, CONT_BYTE)>> \o continuation_encode(val \div 128)

\* The group g, placed at bit offset shift, does not fit a target of
\* `bits` bits.
GroupOverflows(g, shift, bits) ==
    /\ g # 0
    /\ \/ shift >= bits
       \/ /\ bits - shift < 7
          /\ g >= Pow2(bits - shift)

\* Accumulates without looking at the width of the target.
RECURSIVE continuation_step_wrapping(_, _, _, _, _)
continuation_step_wrapping(bs, pos, bits, acc, shift) ==
    LET r == read_byte(bs, pos) IN
    IF r.err # "ok" THEN r
    ELSE LET g == BitAnd(r.v, MASK_BYTE)
             v == (acc + g * Pow2(shift)) % Pow2(bits)
         IN IF BitAnd(r.v, CONT_BYTE) = 0
            THEN Ok(v, r.pos)
            ELSE continuation_step_wrapping(bs, r.pos, bits, v, shift + 7)

RECURSIVE continuation_step(_, _, _, _, _)
continuation_step(bs, pos, bits, acc, shift) ==
    LET r == read_byte(bs, pos) IN
    IF r.err # "ok" THEN r
    ELSE LET g == BitAnd(r.v, MASK_BYTE) IN
         IF GroupOverflows(g, shift, bits)
         THEN Err(IntegerOverflow, r.pos)
         ELSE IF BitAnd(r.v, CONT_BYTE) = 0
              THEN Ok(acc + g * Pow2(shift), r.pos)
              ELSE continuation_step(bs, r.pos, bits,
                                     acc + g * Pow2(shift), shift + 7)

continuation_decode(bs, pos, bits) ==
    continuation_step(bs, pos, bits, 0, 0)

----------------------------------------------------------------------------
(* Fixed-width integers: size_of::<T>() raw bytes in the configured order. *)

RECURSIVE to_le_bytes(_, _)
to_le_bytes(v, n) ==
    IF n = 0 THEN <<>> ELSE <<v % 256>> \o to_le_bytes(v \div 256, n - 1)

RECURSIVE Reverse(_)
Reverse(q) == IF q = <<>> THEN <<>> ELSE Append(Reverse(Tail(q)), Head(q))

to_be_bytes(v, n) == Reverse(to_le_bytes(v, n))

RECURSIVE from_le_bytes(_)
from_le_bytes(bs) ==
    IF bs = <<>> THEN 0 ELSE Head(bs) + 256 * from_le_bytes(Tail(bs))

from_be_bytes(bs) == from_le_bytes(Reverse(bs))

\* Byte orders: NetworkEndian is big-endian.
fixed_encode(order, v, n) ==
    IF order = "LittleEndian" THEN to_le_bytes(v, n) ELSE to_be_bytes(v, n)

fixed_decode(order, bs, pos, n) ==
    Try(read_bytes(bs, pos, n), LAMBDA r :
        Ok(IF order = "LittleEndian" THEN from_le_bytes(r.v)
           ELSE from_be_bytes(r.v), r.pos))

----------------------------------------------------------------------------
(* Wire configuration: cfg.int is the integer encoding I, cfg.len the      *)
(* length encoding L of WireEncoding<I, L>.                                *)

Variable == [kind |-> "Variable", order |-> "none", size |-> 0]
Fixed(order) == [kind |-> "Fixed", order |-> order, size |-> 0]
FixedLength(size) == [kind |-> "Fixed", order |-> "NetworkEndian", size |-> size]

WireEncoding_new == [int |-> Variable, len |-> Variable]

DEFAULT == WireEncoding_new

with_variable_integers(c) == [c EXCEPT !.int = Variable]
with_fixed_integers(c) == [c EXCEPT !.int = Fixed("NetworkEndian")]
with_fixed_integers_le(c) == [c EXCEPT !.int = Fixed("LittleEndian")]
with_fixed_integers_be(c) == [c EXCEPT !.int = Fixed("BigEndian")]
with_fixed_integers_ne(c) == [c EXCEPT !.int = Fixed("NetworkEndian")]
with_variable_lengths(c) == [c EXCEPT !.len = Variable]
with_fixed_lengths(c) == [c EXCEPT !.len = FixedLength(4)]
with_fixed_lengths64(c) == [c EXCEPT !.len = FixedLength(8)]

----------------------------------------------------------------------------
(* Wire encoder: tag byte, then the overflow value when it was not         *)
(* inlined, then the payload.                                              *)

BadKind == "BadKind"
UnsupportedKind == "UnsupportedKind"
BadLength == "BadLength"
MissingField == "MissingField"

\* L::encode_usize: a bare length, without a tag.
encode_usize(enc, n) ==
    IF enc.kind = "Variable" THEN continuation_encode(n)
    ELSE fixed_encode(enc.order, n, enc.size)

decode_usize(enc, bs, pos) ==
    IF enc.kind = "Variable" THEN continuation_decode(bs, pos, 64)
    ELSE fixed_decode(enc.order, bs, pos, enc.size)

\* The bytes a typed integer occupies: the width of the length encoding
\* when it is fixed, else the size of the integer type.
typed_size(enc, size) == IF enc.size = 0 THEN size ELSE enc.size

\* A typed unsigned integer of `size` bytes.
encode_typed_unsigned(enc, v, size) ==
    IF enc.kind = "Variable"
    THEN IF Tag_with_len(Continuation, v)[2]
         THEN <<Tag_byte(Tag_with_len(Continuation, v)[1])>>
         ELSE <<Tag_byte(Tag_with_len(Continuation, v)[1])>>
                  \o continuation_encode(v)
    ELSE <<Tag_byte(Tag_new(Prefix, typed_size(enc, size)))>>
             \o fixed_encode(enc.order, v, typed_size(enc, size))

\* The integer behind a tag that has been read.
decode_typed_tagged(enc, tag, bs, pos, size) ==
    IF enc.kind = "Variable"
    THEN IF Tag_kind(tag) # Continuation THEN Err(BadKind, pos)
         ELSE IF Tag_data(tag).some THEN Ok(Tag_data(tag).v, pos)
         ELSE continuation_decode(bs, pos, 8 * size)
    ELSE IF tag # Tag_new(Prefix, typed_size(enc, size)) THEN Err(BadKind, pos)
         ELSE fixed_decode(enc.order, bs, pos, typed_size(enc, size))

decode_typed_unsigned(enc, bs, pos, size) ==
    Try(read_byte(bs, pos), LAMBDA r :
        decode_typed_tagged(enc, Tag_from_byte(r.v), bs, r.pos, size))

\* The tag of `kind` carrying a length, followed by the length when it
\* did not fit the tag.
encode_prefix(c, kind, len) ==
    IF Tag_with_len(kind, len)[2]
    THEN <<Tag_byte(Tag_with_len(kind, len)[1])>>
    ELSE <<Tag_byte(Tag_with_len(kind, len)[1])>> \o encode_usize(c.len, len)

\* The length a tag carries: inline, or decoded from what follows it.
decode_len(c, tag, bs, pos) ==
    IF Tag_data(tag).some THEN Ok(Tag_data(tag).v, pos)
    ELSE decode_usize(c.len, bs, pos)

decode_prefix(c, kind, bs, pos) ==
    Try(read_byte(bs, pos), LAMBDA r :
        IF Tag_kind(Tag_from_byte(r.v)) # kind THEN Err(BadKind, r.pos)
        ELSE decode_len(c, Tag_from_byte(r.v), bs, r.pos))

encode_u32(c, v) == encode_typed_unsigned(c.int, v, 4)
decode_u32(c, bs, pos) == decode_typed_unsigned(c.int, bs, pos, 4)

\* Field names are usize values.
encode_name(c, n) == encode_typed_unsigned(c.len, n, 8)
decode_name(c, bs, pos) == decode_typed_unsigned(c.len, bs, pos, 8)

\* Option<u32>: a sequence of zero or one element.
encode_option(c, o) ==
    IF o.some THEN encode_prefix(c, Sequence, 1) \o encode_u32(c, o.v)
    ELSE encode_prefix(c, Sequence, 0)

decode_option(c, bs, pos) ==
    Try(decode_prefix(c, Sequence, bs, pos), LAMBDA r :
        IF r.v = 0 THEN Ok(None, r.pos)
        ELSE IF r.v = 1
             THEN Try(decode_u32(c, bs, r.pos), LAMBDA e : Ok(Some(e.v), e.pos))
        ELSE Err(BadLength, r.pos))

\* A packed struct holding a byte array: a Prefix tag with the length of
\* the pack, then the array's bytes without any tag.
encode_pack(c, field) ==
    encode_prefix(c, Prefix, Len(field)) \o field

decode_pack(c, bs, pos, n) ==
    Try(decode_prefix(c, Prefix, bs, pos), LAMBDA r :
        Try(read_bytes(bs, r.pos, r.v), LAMBDA p :
            IF r.v < n THEN Err(BufferExhausted, p.pos)
            ELSE Ok(SubSeq(p.v, 1, n), p.pos)))

\* Skips one value of any kind, and `n` values in a row.
RECURSIVE skip_any(_, _, _)
RECURSIVE skip_many(_, _, _, _)
RECURSIVE skip_tagged(_, _, _, _)
skip_many(c, bs, pos, n) ==
    IF n = 0 THEN Ok(0, pos)
    ELSE Try(skip_any(c, bs, pos), LAMBDA r : skip_many(c, bs, r.pos, n - 1))

\* Skips what follows a tag that has been read.
skip_tagged(c, tag, bs, pos) ==
    CASE Tag_kind(tag) = Byte ->
             IF Tag_data(tag).some THEN Ok(0, pos) ELSE read_bytes(bs, pos, 1)
      [] Tag_kind(tag) = Prefix ->
             Try(decode_len(c, tag, bs, pos), LAMBDA l :
                 read_bytes(bs, l.pos, l.v))
      [] Tag_kind(tag) = Sequence ->
             Try(decode_len(c, tag, bs, pos), LAMBDA l :
                 skip_many(c, bs, l.pos, l.v))
      [] Tag_kind(tag) = PairSequence ->
             Try(decode_len(c, tag, bs, pos), LAMBDA l :
                 skip_many(c, bs, l.pos, 2 * l.v))
      [] Tag_kind(tag) = Continuation ->
             IF Tag_data(tag).some THEN Ok(0, pos)
             ELSE continuation_decode(bs, pos, 128)
      [] OTHER -> Err(UnsupportedKind, pos)

skip_any(c, bs, pos) ==
    Try(read_byte(bs, pos), LAMBDA r :
        skip_tagged(c, Tag_from_byte(r.v), bs, r.pos))

----------------------------------------------------------------------------
(* The structs of the tests: From<N> has the named fields 0 (prefix),      *)
(* 1 (field, a packed [u8; N]) and 2 (suffix); To has only 0 and 2.        *)

encode_From(c, v) ==
    encode_prefix(c, PairSequence, 3)
        \o encode_name(c, 0) \o encode_option(c, v.prefix)
        \o encode_name(c, 1) \o encode_pack(c, v.field)
        \o encode_name(c, 2) \o encode_option(c, v.suffix)

NoFields == [prefix |-> <<>>, field |-> <<>>, suffix |-> <<>>]

\* Decodes `n` name/value pairs; a name the target does not declare has
\* its value skipped.
RECURSIVE decode_fields(_, _, _, _, _, _, _)
RECURSIVE decode_field(_, _, _, _, _, _, _)
decode_fields(c, bs, pos, n, target, size, acc) ==
    IF n = 0 THEN Ok(acc, pos)
    ELSE Try(decode_name(c, bs, pos), LAMBDA nm :
             decode_field(c, bs, nm, n, target, size, acc))

\* The value of the field whose name nm has been decoded, then the rest.
decode_field(c, bs, nm, n, target, size, acc) ==
    IF nm.v = 0
    THEN Try(decode_option(c, bs, nm.pos), LAMBDA o :
             decode_fields(c, bs, o.pos, n - 1, target, size,
                           [acc EXCEPT !.prefix = <<o.v>>]))
    ELSE IF nm.v = 1 /\ target = "From"
    THEN Try(decode_pack(c, bs, nm.pos, size), LAMBDA f :
             decode_fields(c, bs, f.pos, n - 1, target, size,
                           [acc EXCEPT !.field = <<f.v>>]))
    ELSE IF nm.v = 2
    THEN Try(decode_option(c, bs, nm.pos), LAMBDA o :
             decode_fields(c, bs, o.pos, n - 1, target, size,
                           [acc EXCEPT !.suffix = <<o.v>>]))
    ELSE Try(skip_any(c, bs, nm.pos), LAMBDA k :
             decode_fields(c, bs, k.pos, n - 1, target, size, acc))

\* The target struct from the fields found; every declared field must
\* have been present.
build_struct(target, f) ==
    IF target = "From"
    THEN IF f.v.prefix = <<>> \/ f.v.field = <<>> \/ f.v.suffix = <<>>
         THEN Err(MissingField, f.pos)
         ELSE Ok([prefix |-> f.v.prefix[1], field |-> f.v.field[1],
                  suffix |-> f.v.suffix[1]], f.pos)
    ELSE IF f.v.prefix = <<>> \/ f.v.suffix = <<>>
         THEN Err(MissingField, f.pos)
         ELSE Ok([prefix |-> f.v.prefix[1], suffix |-> f.v.suffix[1]], f.pos)

decode_struct(c, bs, target, size) ==
    Try(decode_prefix(c, PairSequence, bs, 1), LAMBDA r :
        Try(decode_fields(c, bs, r.pos, r.v, target, size, NoFields),
            LAMBDA f : build_struct(target, f)))

\* WireEncoding::to_vec and WireEncoding::from_slice.
to_vec(c, v) == encode_From(c, v)

from_slice(c, bs, target, size) == decode_struct(c, bs, target, size)

----------------------------------------------------------------------------
(* The wire program: pick a configuration with the with_* builders, encode *)
(* a From<N> with to_vec, decode a slice of the output with from_slice.    *)

FieldSizes == {0, 23, 30, 31, 62, 110, 200}

FillBytes == {1, 255}

PrefixValues == {None, Some(10), Some(300)}

SuffixValues == {None, Some(20), Some(2147483647)}

Filled(n, b) == [i \in 1..n |-> b]

WireIdle ==
    /\ cfg = WireEncoding_new
    /\ value = [prefix |-> None, field |-> <<>>, suffix |-> None]
    /\ vec = <<>>
    /\ input = <<>>
    /\ res = [target |-> "none", err |-> "none", v |-> 0, pos |-> 1]
    /\ pc = "config"

WireArgs ==
    /\ cfg = WireEncoding_new
    /\ \E n \in FieldSizes, b \in FillBytes, p \in PrefixValues, x \in SuffixValues :
           value = [prefix |-> p, field |-> Filled(n, b), suffix |-> x]
    /\ vec = <<>>
    /\ input = <<>>
    /\ res = [target |-> "none", err |-> "none", v |-> 0, pos |-> 1]
    /\ pc = "config"

Reconfigure(c) ==
    /\ pc = "config"
    /\ cfg' = c
    /\ UNCHANGED <<value, vec, input, res, pc>>

WithVariableIntegers == Reconfigure(with_variable_integers(cfg))
WithFixedIntegers == Reconfigure(with_fixed_integers(cfg))
WithFixedIntegersLe == Reconfigure(with_fixed_integers_le(cfg))
WithFixedIntegersBe == Reconfigure(with_fixed_integers_be(cfg))
WithFixedIntegersNe == Reconfigure(with_fixed_integers_ne(cfg))
WithVariableLengths == Reconfigure(with_variable_lengths(cfg))
WithFixedLengths == Reconfigure(with_fixed_lengths(cfg))
WithFixedLengths64 == Reconfigure(with_fixed_lengths64(cfg))

ToVec ==
    /\ pc = "config"
    /\ vec' = to_vec(cfg, value)
    /\ pc' = "encoded"
    /\ UNCHANGED <<cfg, value, input, res>>

\* from_slice on the first k bytes of the output: all of it, or a strict
\* prefix.
FromSlice(target) ==
    /\ pc = "encoded"
    /\ \E k \in 0..Len(vec) :
           /\ input' = SubSeq(vec, 1, k)
           /\ res' = [target |-> target]
                       @@ from_slice(cfg, SubSeq(vec, 1, k), target,
                                     Len(value.field))
    /\ pc' = "decoded"
    /\ UNCHANGED <<cfg, value, vec>>

FromSliceFrom == FromSlice("From")
FromSliceTo == FromSlice("To")

WireNext ==
    \/ WithVariableIntegers /\ UNCHANGED wireOthers
    \/ WithFixedIntegers /\ UNCHANGED wireOthers
    \/ WithFixedIntegersLe /\ UNCHANGED wireOthers
    \/ WithFixedIntegersBe /\ UNCHANGED wireOthers
    \/ WithFixedIntegersNe /\ UNCHANGED wireOthers
    \/ WithVariableLengths /\ UNCHANGED wireOthers
    \/ WithFixedLengths /\ UNCHANGED wireOthers
    \/ WithFixedLengths64 /\ UNCHANGED wireOthers
    \/ ToVec /\ UNCHANGED wireOthers
    \/ FromSliceFrom /\ UNCHANGED wireOthers
    \/ FromSliceTo /\ UNCHANGED wireOthers

----------------------------------------------------------------------------
(* musli-zerocopy: Ptr, Ref<T> and loading from a buffer.                  *)
(* A type is [name, size, align, any_bits, fields]; a buffer slice is      *)
(* [base, bs]: the offset it starts at and its bytes.                      *)

OutOfBounds == "OutOfBounds"
AlignmentViolation == "AlignmentViolation"
InvalidBitPattern == "InvalidBitPattern"

PtrSize == 4

T_u8 == [name |-> "u8", size |-> 1, align |-> 1, any_bits |-> TRUE]
T_u16 == [name |-> "u16", size |-> 2, align |-> 2, any_bits |-> TRUE]
T_u32 == [name |-> "u32", size |-> 4, align |-> 4, any_bits |-> TRUE]
T_bool == [name |-> "bool", size |-> 1, align |-> 1, any_bits |-> FALSE]
T_Ptr == [name |-> "Ptr", size |-> PtrSize, align |-> PtrSize, any_bits |-> TRUE]
\* Ref<T> is repr(C) { ptr: Ptr, PhantomData }, with ANY_BITS = true.
T_Ref == [name |-> "Ref", size |-> PtrSize, align |-> PtrSize, any_bits |-> TRUE]

ZcTypes == {T_u8, T_u16, T_u32, T_bool, T_Ref}

Ptr_ZERO == 0

Ref_new(ptr) == [ptr |-> ptr]

Ref_zero == Ref_new(Ptr_ZERO)

Ref_ptr(r) == r.ptr

\* The bit patterns a type without ANY_BITS accepts.
valid_bits(T, bs) == T.name = "bool" => bs[1] \in {0, 1}

\* Buf::get: the slice [start, start + size) of the buffer.
Buf_get(buf, start, size) ==
    IF start + size > Len(buf.bs)
    THEN Err(OutOfBounds, 0)
    ELSE Ok([base |-> buf.base + start,
             bs |-> SubSeq(buf.bs, start + 1, start + size)], 0)

\* Buf::validate::<T>: the slice is aligned for T and holds size_of::<T>()
\* bytes; returns a validator positioned at its start.
Buf_validate(b, T) ==
    IF b.base % T.align # 0 THEN Err(AlignmentViolation, 0)
    ELSE IF Len(b.bs) # T.size THEN Err(OutOfBounds, 0)
    ELSE Ok([b |-> b, off |-> 0], 0)

AlignUp(n, a) == ((n + a - 1) \div a) * a

\* Validator::field::<F>: steps over the padding before F, checks F's
\* bytes and steps over them.
Validator_field(v, F) ==
    IF AlignUp(v.off, F.align) + F.size > Len(v.b.bs)
    THEN Err(OutOfBounds, 0)
    ELSE IF ~F.any_bits
            /\ ~valid_bits(F, SubSeq(v.b.bs, AlignUp(v.off, F.align) + 1,
                                     AlignUp(v.off, F.align) + F.size))
    THEN Err(InvalidBitPattern, 0)
    ELSE Ok([v EXCEPT !.off = AlignUp(v.off, F.align) + F.size], 0)

\* Validator::end: every byte of the slice was accounted for.
Validator_end(v) ==
    IF v.off # Len(v.b.bs) THEN Err(OutOfBounds, 0) ELSE Ok(v, 0)

\* Buf::cast: the reference to the slice, as the range it covers.
Buf_cast(b) == [at |-> b.base, size |-> Len(b.bs)]

\* Ref<T>::coerce without the validation of the buffer.
Ref_coerce_unchecked(b) ==
    Ok(Buf_cast(b), 0)

Ref_coerce(b) ==
    Try(Buf_validate(b, T_Ref), LAMBDA v :
        Try(Validator_field(v.v, T_Ptr), LAMBDA w :
            Try(Validator_end(w.v), LAMBDA e :
                Ok(Buf_cast(b), 0))))

\* coerce of a primitive type: alignment and size, then the bit pattern.
prim_coerce(b, T) ==
    Try(Buf_validate(b, T), LAMBDA v :
        IF ~T.any_bits /\ ~valid_bits(T, b.bs)
        THEN Err(InvalidBitPattern, 0)
        ELSE Ok(Buf_cast(b), 0))

coerce(b, T) ==
    IF T.name = "Ref" THEN Ref_coerce(b) ELSE prim_coerce(b, T)

\* Buf::load: bounds, then T::coerce on the slice.
Buf_load(buf, r, T) ==
    Try(Buf_get(buf, Ref_ptr(r), T.size), LAMBDA b : coerce(b.v, T))

----------------------------------------------------------------------------
(* Zero-copy loading as a state machine: a buffer, a type and a Ptr are    *)
(* drawn, a Ref<T> is constructed and then loaded.                         *)

MaxBufLen == 9

MaxPtr == 10

BufPatterns == {0, 1, 2, 3}

\* Buffer contents: a constant byte, or a ramp.
PatternBuf(n, k) == [i \in 1..n |-> IF k = 3 THEN i % 3 ELSE k]

NoRef == Ref_new(Ptr_ZERO)

ZcIdle == zc = [op |-> "none", buf |-> [base |-> 0, bs |-> <<>>],
                ty |-> T_u8, ptr |-> 0, ref |-> NoRef, res |-> NoRes]

ZcArgs ==
    \E n \in 0..MaxBufLen, k \in BufPatterns, T \in ZcTypes, p \in 0..MaxPtr :
        zc = [op |-> "none", buf |-> [base |-> 0, bs |-> PatternBuf(n, k)],
              ty |-> T, ptr |-> p, ref |-> NoRef, res |-> NoRes]

\* Ref::new(ptr): no check of any kind.
RefNew ==
    /\ zc.op = "none"
    /\ zc' = [zc EXCEPT !.op = "new", !.ref = Ref_new(zc.ptr)]

\* Ref::zero().
RefZero ==
    /\ zc.op = "none"
    /\ zc' = [zc EXCEPT !.op = "new", !.ptr = Ptr_ZERO, !.ref = Ref_zero]

\* buf.load(reference)
Load ==
    /\ zc.op = "new"
    /\ zc' = [zc EXCEPT !.op = "load",
                        !.res = Buf_load(zc.buf, zc.ref, zc.ty)]

ZcNext ==
    \/ RefNew /\ UNCHANGED zcOthers
    \/ RefZero /\ UNCHANGED zcOthers
    \/ Load /\ UNCHANGED zcOthers

----------------------------------------------------------------------------
(* musli-zerocopy: BufMut::store_struct and the StoreStruct writer.        *)
(* A struct is the sequence of its field types, laid out as repr(C).       *)

RECURSIVE MaxAlign(_)
MaxAlign(fields) ==
    IF fields = <<>> THEN 1
    ELSE LET m == MaxAlign(Tail(fields)) IN
         IF Head(fields).align > m THEN Head(fields).align ELSE m

\* Offset of the end of field i (0 for i = 0).
RECURSIVE FieldEnd(_, _)
FieldEnd(fields, i) ==
    IF i = 0 THEN 0
    ELSE AlignUp(FieldEnd(fields, i - 1), fields[i].align) + fields[i].size

FieldOffset(fields, i) == AlignUp(FieldEnd(fields, i - 1), fields[i].align)

StructSize(fields) == AlignUp(FieldEnd(fields, Len(fields)), MaxAlign(fields))

\* The bytes of a value are numbered 1, 2, 3, ... across its fields, so
\* that ZeroPadded(0x01, 0x0203 big-endian) is the value of (u8, u16).
RECURSIVE BytesBefore(_, _)
BytesBefore(fields, i) ==
    IF i = 1 THEN 0 ELSE BytesBefore(fields, i - 1) + fields[i - 1].size

\* The field that owns offset o of the struct, 0 for a padding byte.
FieldAt(fields, o) ==
    LET owners == {i \in 1..Len(fields) :
                      /\ FieldOffset(fields, i) <= o
                      /\ o < FieldOffset(fields, i) + fields[i].size}
    IN IF owners = {} THEN 0 ELSE CHOOSE i \in owners : TRUE

\* The in-memory image of the value: field bytes in place, the padding
\* bytes holding whatever `garbage` was there.
RawByte(fields, o, garbage) ==
    IF FieldAt(fields, o) = 0 THEN garbage
    ELSE BytesBefore(fields, FieldAt(fields, o))
             + (o - FieldOffset(fields, FieldAt(fields, o))) + 1

\* Sets the bytes at offsets [from, to) of the writer's struct to zero.
ZeroFill(w, from, to) ==
    [w EXCEPT
       !.bs = [i \in 1..Len(w.bs) |->
                  IF w.start + from < i /\ i <= w.start + to THEN 0 ELSE w.bs[i]],
       !.init = [i \in 1..Len(w.init) |->
                  IF w.start + from < i /\ i <= w.start + to THEN TRUE
                  ELSE w.init[i]]]

\* BufMut::store_struct(&value): aligns the buffer for T with zeros and
\* copies the value's memory image behind it; padding bytes are not
\* initialized by the copy.
store_struct(w, garbage) ==
    LET start == AlignUp(w.len, MaxAlign(w.layout))
        size == StructSize(w.layout)
    IN [w EXCEPT
          !.pc = "padding",
          !.garbage = garbage,
          !.start = start,
          !.cursor = 0,
          !.bs = [i \in 1..(start + size) |->
                     IF i <= w.len THEN w.bs[i]
                     ELSE IF i <= start THEN 0
                     ELSE RawByte(w.layout, i - start - 1, garbage)],
          !.init = [i \in 1..(start + size) |->
                     IF i <= start THEN TRUE
                     ELSE FieldAt(w.layout, i - start - 1) # 0]]

\* pad::<F>() that moves the cursor and writes nothing.
pad_no_fill(w, F) ==
    [w EXCEPT !.cursor = AlignUp(w.cursor, F.align) + F.size,
              !.calls = Append(w.calls, F.name)]

\* StoreStruct::pad::<F>(): zeroes the gap up to F's alignment boundary
\* and advances the cursor past F.
pad(w, F) ==
    [ZeroFill(w, w.cursor, AlignUp(w.cursor, F.align))
        EXCEPT !.cursor = AlignUp(w.cursor, F.align) + F.size,
               !.calls = Append(w.calls, F.name)]

\* StoreStruct::finish(): zeroes what is left of the struct after the last
\* padded field and advances the buffer by size_of::<T>().
finish(w) ==
    [ZeroFill(w, w.cursor, StructSize(w.layout))
        EXCEPT !.pc = "done",
               !.len = w.start + StructSize(w.layout)]

----------------------------------------------------------------------------
(* The StoreStruct writer as a state machine. The caller may call pad for  *)
(* any field type in any order and finish at any time: finish is unsafe    *)
(* and nothing checks its precondition.                                    *)

MaxPrior == 3

Garbage == {0, 170, 255}

PadTypes == {T_u8, T_u16, T_u32}

Layouts == { <<T_u8, T_u16>>, <<T_u16, T_u8>>, <<T_u8, T_u32>>,
             <<T_u8, T_u16, T_u8>>, <<T_u32, T_u8, T_u16>>, <<T_u8, T_u8>> }

SsIdle == ss = [pc |-> "start", layout |-> <<T_u8>>, garbage |-> 0,
                bs |-> <<>>, init |-> <<>>, len |-> 0, start |-> 0,
                cursor |-> 0, calls |-> <<>>]

SsArgs ==
    \E fields \in Layouts, n \in 0..MaxPrior :
        ss = [pc |-> "start", layout |-> fields, garbage |-> 0,
              bs |-> [i \in 1..n |-> 7], init |-> [i \in 1..n |-> TRUE],
              len |-> n, start |-> 0, cursor |-> 0, calls |-> <<>>]

StoreStruct ==
    /\ ss.pc = "start"
    /\ \E g \in Garbage : ss' = store_struct(ss, g)

Pad ==
    /\ ss.pc = "padding"
    /\ \E F \in PadTypes :
           /\ AlignUp(ss.cursor, F.align) + F.size <= StructSize(ss.layout)
           /\ ss' = pad(ss, F)

Finish ==
    /\ ss.pc = "padding"
    /\ ss' = finish(ss)

SsNext ==
    \/ StoreStruct /\ UNCHANGED ssOthers
    \/ Pad /\ UNCHANGED ssOthers
    \/ Finish /\ UNCHANGED ssOthers

----------------------------------------------------------------------------
(* SequenceEncoder: a sequence under construction. encode_element hands    *)
(* out a single-use encoder for the next element position, encoding a      *)
(* value through it consumes it, and push does both for one value.         *)

MaxPush == 3

ElementValues == {1, 2, 3}

ElementError == "ElementError"
EncodeError == "EncodeError"
EndError == "EndError"

ElementOutcomes == {"ok", ElementError}
EncodeOutcomes == {"ok", EncodeError}
EndOutcomes == {"ok", EndError}

\* SequenceEncoder::encode_element with outcome o of the implementation:
\* on success the next position is handed out as a fresh encoder.
encode_element(s, o) ==
    IF o # "ok" THEN [err |-> o, s |-> s, enc |-> 0]
    ELSE [err |-> "ok",
          s |-> [s EXCEPT !.issued = s.issued + 1],
          enc |-> s.issued + 1]

\* Encoder::encode on the element encoder enc, which takes it by value:
\* the encoder is gone afterwards, and on success its position holds val.
Encoder_encode(s, enc, val, o) ==
    IF o # "ok" THEN [err |-> o, s |-> [s EXCEPT !.consumed = s.consumed + 1]]
    ELSE [err |-> "ok",
          s |-> [s EXCEPT !.consumed = s.consumed + 1,
                          !.out = Append(s.out, [slot |-> enc, val |-> val])]]

\* let _ = self.encode_element()?.encode(value); Ok(())
push_ignore_error(s, val, o1, o2) ==
    IF encode_element(s, o1).err # "ok"
    THEN [err |-> encode_element(s, o1).err, s |-> encode_element(s, o1).s]
    ELSE [err |-> "ok",
          s |-> Encoder_encode(encode_element(s, o1).s,
                               encode_element(s, o1).enc, val, o2).s]

\* self.encode_element()?.encode(value)?; Ok(())
push(s, val, o1, o2) ==
    IF encode_element(s, o1).err # "ok"
    THEN [err |-> encode_element(s, o1).err, s |-> encode_element(s, o1).s]
    ELSE Encoder_encode(encode_element(s, o1).s,
                        encode_element(s, o1).enc, val, o2)

\* SequenceEncoder::end_sequence takes the sequence encoder by value.
end_sequence(s, o) ==
    [err |-> o, s |-> [s EXCEPT !.pc = "ended"]]

SeIdle == se = [pc |-> "open", issued |-> 0, consumed |-> 0, out |-> <<>>,
                pushed |-> <<>>, faults |-> <<>>, results |-> <<>>,
                ended |-> "none"]

\* A caller pushes val; o1 and o2 are what the implementation's
\* encode_element and the element's encode turn out to do.
Push ==
    /\ se.pc = "open"
    /\ Len(se.pushed) < MaxPush
    /\ \E val \in ElementValues, o1 \in ElementOutcomes, o2 \in EncodeOutcomes :
           se' = [push(se, val, o1, o2).s EXCEPT
                      !.pushed = Append(se.pushed, val),
                      !.faults = Append(se.faults, <<o1, o2>>),
                      !.results = Append(se.results, push(se, val, o1, o2).err)]

EndSequence ==
    /\ se.pc = "open"
    /\ \E o \in EndOutcomes :
           se' = [end_sequence(se, o).s EXCEPT !.ended = end_sequence(se, o).err]

SeqNext ==
    \/ Push /\ UNCHANGED seOthers
    \/ EndSequence /\ UNCHANGED seOthers

----------------------------------------------------------------------------
(* Continuation integers as a state machine: the arguments are drawn       *)
(* first, then one call is made on them.                                   *)

MaxVarBytes == 3

VarAlphabet == {0, 1, 3, 127, 128, 129, 255}

IntWidths == {8, 16}

IntValues == {0, 1, 127, 128, 255, 256, 300, 16383, 16384, 65535}

RECURSIVE SeqsUpTo(_, _)
SeqsUpTo(S, n) ==
    IF n = 0 THEN {<<>>}
    ELSE LET shorter == SeqsUpTo(S, n - 1)
         IN shorter \cup {Append(q, x) : q \in {t \in shorter : Len(t) = n - 1}, x \in S}

IntIdle == ci = [op |-> "none", bits |-> 8, input |-> <<>>, value |-> 0,
                 res |-> NoRes]

IntArgs ==
    \/ \E w \in IntWidths, bs \in SeqsUpTo(VarAlphabet, MaxVarBytes) :
           ci = [op |-> "none", bits |-> w, input |-> bs, value |-> 0,
                 res |-> NoRes]
    \/ \E w \in IntWidths, x \in IntValues :
           /\ x < Pow2(w)
           /\ ci = [op |-> "none", bits |-> w, input |-> <<>>, value |-> x,
                    res |-> NoRes]

\* continuation::decode on the drawn input.
ContDecode ==
    /\ ci.op = "none"
    /\ ci' = [ci EXCEPT !.op = "decode",
                        !.res = continuation_decode(ci.input, 1, ci.bits)]

\* continuation::encode of the drawn value, then decode of what it wrote.
ContEncode ==
    /\ ci.op = "none"
    /\ ci.input = <<>>
    /\ LET out == continuation_encode(ci.value) IN
       ci' = [ci EXCEPT !.op = "encode", !.input = out,
                        !.res = continuation_decode(out, 1, ci.bits)]

IntNext ==
    \/ ContDecode /\ UNCHANGED intOthers
    \/ ContEncode /\ UNCHANGED intOthers

----------------------------------------------------------------------------
(* Tag operations as a state machine: each action is one call.             *)

MaxTagLen == 300

NoTag == Tag_from_byte(0)

\* The arguments of the call are drawn first; one call is then made on them.
TagArgs ==
    \E k \in Kind, n \in 0..MaxTagLen :
        tg = [op |-> "none", kind |-> k, arg |-> n,
              tag |-> NoTag, embedded |-> FALSE]

TagIdle == tg = [op |-> "none", kind |-> Byte, arg |-> 0,
                 tag |-> NoTag, embedded |-> FALSE]

TagInit == TagArgs /\ IntIdle /\ WireIdle /\ ZcIdle /\ SsIdle /\ SeIdle

CallFromByte ==
    /\ tg.op = "none"
    /\ tg.arg \in U8
    /\ tg' = [tg EXCEPT !.op = "from_byte", !.tag = Tag_from_byte(tg.arg)]

CallNew ==
    /\ tg.op = "none"
    /\ tg.arg \in U8
    /\ tg' = [tg EXCEPT !.op = "new", !.tag = Tag_new(tg.kind, tg.arg)]

CallEmpty ==
    /\ tg.op = "none"
    /\ tg' = [tg EXCEPT !.op = "empty", !.tag = Tag_empty(tg.kind)]

CallWithLen ==
    /\ tg.op = "none"
    /\ tg' = [tg EXCEPT !.op = "with_len",
                        !.tag = Tag_with_len(tg.kind, tg.arg)[1],
                        !.embedded = Tag_with_len(tg.kind, tg.arg)[2]]

CallWithByte ==
    /\ tg.op = "none"
    /\ tg.arg \in U8
    /\ tg' = [tg EXCEPT !.op = "with_byte",
                        !.tag = Tag_with_byte(tg.kind, tg.arg)[1],
                        !.embedded = Tag_with_byte(tg.kind, tg.arg)[2]]

TagNext ==
    \/ CallFromByte /\ UNCHANGED tagOthers
    \/ CallNew /\ UNCHANGED tagOthers
    \/ CallEmpty /\ UNCHANGED tagOthers
    \/ CallWithLen /\ UNCHANGED tagOthers
    \/ CallWithByte /\ UNCHANGED tagOthers

SpecTag == TagInit /\ [][TagNext]_vars

IntInit == IntArgs /\ TagIdle /\ WireIdle /\ ZcIdle /\ SsIdle /\ SeIdle

SpecInt == IntInit /\ [][IntNext]_vars

SsInit == SsArgs /\ TagIdle /\ IntIdle /\ WireIdle /\ ZcIdle /\ SeIdle

SpecStore == SsInit /\ [][SsNext]_vars

ZcInit == ZcArgs /\ TagIdle /\ IntIdle /\ WireIdle /\ SsIdle /\ SeIdle

SpecZc == ZcInit /\ [][ZcNext]_vars

Init == WireArgs /\ TagIdle /\ IntIdle /\ ZcIdle /\ SsIdle /\ SeIdle

SeqInit == SeIdle /\ TagIdle /\ IntIdle /\ WireIdle /\ ZcIdle /\ SsIdle

SpecSeq == SeqInit /\ [][SeqNext]_vars

Next == WireNext

Spec == Init /\ [][Next]_vars

----------------------------------------------------------------------------
(* C1: Round-trip. Under every configuration, decoding all of the bytes    *)
(* that to_vec produced for a value, into the type of that value, succeeds *)
(* and yields a value equal to the one encoded.                            *)
RoundTrip ==
    (pc = "decoded" /\ res.target = "From" /\ input = vec) =>
        /\ res.err = "ok"
        /\ res.v = value
        /\ res.pos = Len(vec) + 1

\* A value with a 200-byte field went through fixed little-endian integers
\* and 64-bit fixed lengths and came back.
RoundTripWitness ==
    /\ pc = "decoded"
    /\ res.target = "From"
    /\ input = vec
    /\ cfg = [int |-> Fixed("LittleEndian"), len |-> FixedLength(8)]
    /\ Len(value.field) = 200
    /\ value.prefix = Some(300)
    /\ res.err = "ok"

(* C2: Truncated input. Decoding any strict prefix of a valid encoding     *)
(* fails with BufferExhausted, and the decoder stops without moving past   *)
(* the end of the input.                                                   *)
TruncatedInputFails ==
    (pc = "decoded" /\ Len(input) < Len(vec)) =>
        /\ res.err = BufferExhausted
        /\ res.pos <= Len(input) + 1

\* The input ended inside the payload of the field being skipped, whose
\* length was announced out of line.
TruncatedInputFailsWitness ==
    /\ pc = "decoded"
    /\ res.target = "To"
    /\ Len(value.field) = 110
    /\ Len(input) = 40
    /\ cfg = DEFAULT
    /\ res.err = BufferExhausted

(* C3: Field subset decode. Decoding the encoding of a struct with the     *)
(* fields 0, 1 and 2 into a type that declares only 0 and 2 succeeds,     *)
(* skips field 1 with its whole payload, and yields exactly the values    *)
(* encoded for 0 and 2.                                                   *)
FieldSubsetDecode ==
    (pc = "decoded" /\ res.target = "To" /\ input = vec) =>
        /\ res.err = "ok"
        /\ res.v = [prefix |-> value.prefix, suffix |-> value.suffix]
        /\ res.pos = Len(vec) + 1

\* A 200-byte unknown field was skipped between two populated fields.
FieldSubsetDecodeWitness ==
    /\ pc = "decoded"
    /\ res.target = "To"
    /\ input = vec
    /\ Len(value.field) = 200
    /\ value.prefix = Some(10)
    /\ value.suffix = Some(20)
    /\ res.err = "ok"

\* The values of the framing tests: prefix Some(10), suffix Some(20),
\* encoded under the default configuration.
FramingCase ==
    /\ pc # "config"
    /\ cfg = DEFAULT
    /\ value.prefix = Some(10)
    /\ value.suffix = Some(20)

MAX_INLINE_LEN == 62

(* C4: Packed prefix framing. Under the default configuration a struct    *)
(* whose middle field is a packed byte array of length N, for N from 0 to  *)
(* MAX_INLINE_LEN = 62, encodes to exactly N + 9 bytes, and the byte at    *)
(* index 5 is Tag::new(Kind::Prefix, N) with embedded length N.            *)
PackedPrefixFraming ==
    (FramingCase /\ Len(value.field) <= MAX_INLINE_LEN) =>
        /\ Len(vec) = Len(value.field) + 9
        /\ Tag_from_byte(vec[6]) = Tag_new(Prefix, Len(value.field))
        /\ Tag_data(Tag_from_byte(vec[6])) = Some(Len(value.field))

\* The exponent of the smallest power of two that is at least n.
RECURSIVE CeilLog2(_)
CeilLog2(n) == IF n <= 1 THEN 0 ELSE 1 + CeilLog2((n + 1) \div 2)

(* C5: Pack kind overflow framing. A packed byte array longer than         *)
(* MAX_INLINE_LEN is encoded with a tag of Kind Pack whose data is the     *)
(* exponent p of the smallest power of two >= N, its payload zero-padded   *)
(* to 2^p bytes, so that the struct occupies 2^p + 9 bytes.                *)
PackOverflowFraming ==
    (FramingCase /\ Len(value.field) > MAX_INLINE_LEN) =>
        LET n == Len(value.field)
            p == CeilLog2(n)
        IN /\ KindName(Tag_kind(Tag_from_byte(vec[6]))) = "Pack"
           /\ Tag_data(Tag_from_byte(vec[6])) = Some(p)
           /\ Len(vec) = Pow2(p) + 9
           /\ \A i \in (n + 7)..(Pow2(p) + 6) : vec[i] = 0

----------------------------------------------------------------------------
(* C8: Tag identity. For every byte b, converting b to a Tag with          *)
(* from_byte and back with byte() gives b again.                           *)
TagIdentity ==
    tg.op = "from_byte" => Tag_byte(tg.tag) = tg.arg

\* A from_byte call on a byte with both kind bits and data bits set.
TagIdentityWitness ==
    /\ tg.op = "from_byte"
    /\ tg.arg = 171
    /\ Tag_byte(tg.tag) = 171

(* C9: Tag data round-trip. For every kind, Tag::new(kind, data).data()    *)
(* is Some(data) when data is in 0..30 and None when data is in 31..255.   *)
TagDataRoundTrip ==
    tg.op = "new" =>
        /\ tg.arg <= 30 => Tag_data(tg.tag) = Some(tg.arg)
        /\ tg.arg >= 31 => Tag_data(tg.tag) = None

\* Tag::new was called with data above the mask and saturated.
TagDataRoundTripWitness ==
    /\ tg.op = "new"
    /\ tg.kind = Continuation
    /\ tg.arg = 200
    /\ Tag_data(tg.tag) = None
    /\ Tag_data_raw(tg.tag) = DATA_MASK

(* C11: Tag kind is total. For every byte b, Tag::from_byte(b).kind() is   *)
(* the Kind variant whose discriminant is b & 0b1110_0000; each of the 8   *)
(* three-bit patterns is a declared variant, the patterns 5, 6 and 7       *)
(* being Unknown1, Unknown2 and Unknown3, so kind() never yields a value   *)
(* outside the enumeration.                                                *)
TagKindTotal ==
    tg.op = "from_byte" =>
        /\ Tag_kind(tg.tag) \in Kind
        /\ Tag_kind(tg.tag) = 32 * (tg.arg \div 32)
        /\ KindName(Tag_kind(tg.tag)) # "invalid"
        /\ tg.arg \div 32 = 5 => KindName(Tag_kind(tg.tag)) = "Unknown1"
        /\ tg.arg \div 32 = 6 => KindName(Tag_kind(tg.tag)) = "Unknown2"
        /\ tg.arg \div 32 = 7 => KindName(Tag_kind(tg.tag)) = "Unknown3"

\* The byte 0b111_01011 was made a Tag and its kind is the reserved
\* pattern 7.
TagKindTotalWitness ==
    /\ tg.op = "from_byte"
    /\ tg.arg = 235
    /\ Tag_kind(tg.tag) = Unknown3

----------------------------------------------------------------------------
\* The bytes a decode call consumes: up to and including the first byte
\* without the continuation bit, or the whole input when there is none.
RECURSIVE TermIndex(_, _)
TermIndex(bs, i) ==
    IF i > Len(bs) THEN 0
    ELSE IF bs[i] < 128 THEN i
    ELSE TermIndex(bs, i + 1)

Consumed(bs) ==
    IF TermIndex(bs, 1) = 0 THEN bs
    ELSE SubSeq(bs, 1, TermIndex(bs, 1))

\* Index of the last non-zero group among the consumed bytes, 0 if none.
TopGroup(bs) ==
    LET nz == {i \in 1..Len(Consumed(bs)) : Consumed(bs)[i] % 128 # 0}
    IN IF nz = {} THEN 0 ELSE CHOOSE i \in nz : \A j \in nz : j <= i

\* Number of significant bits of a group value in 1..127.
BitLen(g) == CHOOSE n \in 1..7 : Pow2(n - 1) <= g /\ g < Pow2(n)

\* The value the consumed groups represent needs more than `bits` bits.
ValueTooWide(bs, bits) ==
    /\ TopGroup(bs) # 0
    /\ 7 * (TopGroup(bs) - 1)
         + BitLen(Consumed(bs)[TopGroup(bs)] % 128) > bits

RECURSIVE GroupSum(_, _)
GroupSum(bs, i) ==
    IF i > Len(bs) THEN 0
    ELSE (bs[i] % 128) + 128 * GroupSum(bs, i + 1)

(* C10: Variable-length decoding never silently truncates. Decoding into   *)
(* a w-bit target fails with IntegerOverflow whenever the 7-bit groups     *)
(* read represent a value that needs more than w bits, fails with          *)
(* BufferExhausted when the input ends while the last byte read has its    *)
(* continuation bit set, and otherwise returns exactly the value the       *)
(* groups represent; decoding what encode wrote returns the encoded value. *)
VarintNoSilentTruncation ==
    ci.op \in {"decode", "encode"} =>
        /\ ValueTooWide(ci.input, ci.bits) => ci.res.err = IntegerOverflow
        /\ (~ValueTooWide(ci.input, ci.bits) /\ TermIndex(ci.input, 1) = 0)
              => ci.res.err = BufferExhausted
        /\ ci.res.err = "ok" =>
              /\ ci.res.v = GroupSum(Consumed(ci.input), 1)
              /\ ci.res.v < Pow2(ci.bits)
              /\ ci.res.pos = TermIndex(ci.input, 1) + 1
        /\ ci.op = "encode" => (ci.res.err = "ok" /\ ci.res.v = ci.value)

\* A two-byte input whose second group does not fit an 8-bit target was
\* decoded and rejected.
VarintNoSilentTruncationWitness ==
    /\ ci.op = "decode"
    /\ ci.bits = 8
    /\ ci.input = <<255, 3>>
    /\ ci.res.err = IntegerOverflow

----------------------------------------------------------------------------
\* The checks a load must have passed, stated on the arguments.
InBounds == zc.ptr + zc.ty.size <= Len(zc.buf.bs)

Aligned == zc.ptr % zc.ty.align = 0

BitsAccepted ==
    zc.ty.any_bits
        \/ valid_bits(zc.ty, SubSeq(zc.buf.bs, zc.ptr + 1, zc.ptr + zc.ty.size))

----------------------------------------------------------------------------
\* The caller followed the protocol: pad::<F>() once for every field, in
\* declaration order, then finish().
ProtocolFollowed ==
    /\ ss.pc = "done"
    /\ ss.calls = [i \in 1..Len(ss.layout) |-> ss.layout[i].name]

(* C7: StoreStruct padding protocol. After store_struct(&value), one       *)
(* pad::<F>() per field in declaration order and finish(), every byte of   *)
(* the struct's range is initialized, each field's bytes sit at its        *)
(* natural-alignment offset, every alignment-gap byte is zero, and the     *)
(* buffer has advanced by exactly the struct's size; (u8 = 1, u16 = 0x0203 *)
(* big-endian) is stored as [1, 0, 2, 3].                                  *)
StoreStructPadded ==
    ProtocolFollowed =>
        /\ ss.len = ss.start + StructSize(ss.layout)
        /\ Len(ss.bs) = ss.len
        /\ ss.start % MaxAlign(ss.layout) = 0
        /\ \A i \in 1..Len(ss.bs) : ss.init[i]
        /\ \A o \in 0..(StructSize(ss.layout) - 1) :
              ss.bs[ss.start + o + 1] =
                  IF FieldAt(ss.layout, o) = 0 THEN 0
                  ELSE RawByte(ss.layout, o, 0)
        /\ (ss.layout = <<T_u8, T_u16>> /\ ss.start = 0) => ss.bs = <<1, 0, 2, 3>>

\* ZeroPadded(u8, u16) was stored into an empty buffer over a padding byte
\* that held 255, with both pads and finish.
StoreStructPaddedWitness ==
    /\ ProtocolFollowed
    /\ ss.layout = <<T_u8, T_u16>>
    /\ ss.garbage = 255
    /\ ss.start = 0
    /\ ss.bs = <<1, 0, 2, 3>>

----------------------------------------------------------------------------
\* The pushes, by index, that reported success.
OkPushes == {i \in 1..Len(se.results) : se.results[i] = "ok"}

\* The pushes, by index, whose encode_element handed out an encoder.
IssuedPushes == {i \in 1..Len(se.faults) : se.faults[i][1] = "ok"}

\* The index of the j-th push that reported success.
OkIndex(j) ==
    CHOOSE i \in OkPushes : Cardinality({h \in OkPushes : h <= i}) = j

(* C12: Sequence element ordering. Over any calls push(v1), ..., push(vn)  *)
(* followed by end_sequence, each push obtains exactly one fresh element   *)
(* encoder from encode_element and consumes it by encoding exactly its     *)
(* value, so each element position is written exactly once and in push     *)
(* order; a push whose encode_element or whose element encode fails        *)
(* returns that error and does not report success.                         *)
SequenceOrdering ==
    /\ Len(se.results) = Len(se.pushed)
    /\ \A i \in 1..Len(se.pushed) :
           se.results[i] = IF se.faults[i][1] # "ok" THEN se.faults[i][1]
                           ELSE se.faults[i][2]
    /\ se.issued = Cardinality(IssuedPushes)
    /\ se.consumed = se.issued
    /\ Len(se.out) = Cardinality(OkPushes)
    /\ \A j \in 1..Len(se.out) :
           /\ se.out[j].val = se.pushed[OkIndex(j)]
           /\ se.out[j].slot = Cardinality({h \in IssuedPushes : h <= OkIndex(j)})
    /\ \A j, k \in 1..Len(se.out) : j < k => se.out[j].slot < se.out[k].slot

\* 1, 2 and 3 were pushed and the sequence ended; the encode of 2 failed,
\* so positions 1 and 3 hold 1 and 3 and the second push returned the error.
SequenceOrderingWitness ==
    /\ se.pc = "ended"
    /\ se.ended = "ok"
    /\ se.pushed = <<1, 2, 3>>
    /\ se.results = <<"ok", EncodeError, "ok">>
    /\ se.out = <<[slot |-> 1, val |-> 1], [slot |-> 3, val |-> 3]>>

====
